---- MODULE Spec2Model ----
(***************************************************************************)
(* Model of the DynamoDB-stream entry point of serverless-rust-demo:       *)
(*   src/entrypoints/lambda/dynamodb/model.rs  (AttributeValue, Product    *)
(*       and Event conversions, the serde envelope structs)                *)
(*   src/entrypoints/lambda/dynamodb/mod.rs    (handle_events_unboxed,     *)
(*       json_to_ddb_event_structs, parse_ddb_events, dispatch_events)     *)
(*                                                                         *)
(* Text (Rust String / JSON string) is a sequence of one-character         *)
(* strings.  Option<T> is a sequence of length 0 (None) or 1 (Some).       *)
(* Result<T, E> is a record [val, err] of two such options.                *)
(***************************************************************************)
EXTENDS Integers, Sequences, FiniteSets, TLC

VARIABLES
    pc,          \* position inside the entry point
    image,       \* HashMap<String, AttributeValue> given to Product::try_from
    projected,   \* Option<Result<Product, Error>>
    record,      \* DynamoDBRecord given to Event::try_from
    classified,  \* Option<Result<Event, Error>>
    envelope,    \* serde_json::Value given to handle_events_unboxed
    ddb_event,   \* Option<DynamoDBEvent>: the decoded envelope
    slots,       \* per record position: Option<Result<Event, Error>>
    order,       \* record positions in the order the workers finished them
    saved_error, \* Option<Error>: first error seen by the parallel collect
    events,      \* Option<Vec<Event>>: the event sequence handed to dispatch
    sink_calls,  \* sequence of the event sequences submitted to the sink
    sink_replies, \* sequence of the outcomes the sink returned, one per call
    wire,        \* one tagged attribute object as it arrives in the JSON
    attr,        \* Option<Result<AttributeValue, serde error>>: wire, decoded
    accessed,    \* Option of what each accessor returned for the attribute
    result       \* Option<Result<(), Error>> returned to the caller

vars == <<pc, image, projected, record, classified, envelope, ddb_event,
          slots, order, saved_error, events, sink_calls, sink_replies, wire, attr,
          accessed, result>>

(***************************************************************************)
(* Bounds                                                                  *)
(***************************************************************************)
MaxNumLen == 2      \* longest numeric string carried by an N attribute
MaxRecords == 2     \* longest batch

(***************************************************************************)
(* Option, Result, Error                                                   *)
(***************************************************************************)
None == <<>>
Some(x) == <<x>>
Ok(v) == [val |-> <<v>>, err |-> <<>>]
Err(e) == [val |-> <<>>, err |-> <<e>>]
IsOk(r) == r.err = <<>>
IsErr(r) == r.err # <<>>
Unwrap(r) == r.val[1]
UnwrapErr(r) == r.err[1]

InternalError(msg) == [variant |-> "InternalError", msg |-> msg]
ClientError(msg) == [variant |-> "ClientError", msg |-> msg]

(***************************************************************************)
(* Text and decimal parsing (str::parse::<f64>)                            *)
(***************************************************************************)
Digits == {"1"}
DigitVal(c) == IF c = "1" THEN 1 ELSE 0

RECURSIVE Pow10(_)
Pow10(n) == IF n = 0 THEN 1 ELSE 10 * Pow10(n - 1)

\* f64 values are kept as integers scaled by Scale, which is exact for
\* every decimal of at most MaxNumLen characters.
Scale == Pow10(MaxNumLen)

SeqsUpTo(A, n) == UNION {[1..k -> A] : k \in 0..n}

CountDots(s) == Cardinality({i \in 1..Len(s) : s[i] = "."})
DotPos(s) == IF CountDots(s) = 0 THEN Len(s) + 1
             ELSE CHOOSE i \in 1..Len(s) : s[i] = "."

RECURSIVE DigitsValue(_)
DigitsValue(s) == IF s = <<>> THEN 0
                  ELSE 10 * DigitsValue(SubSeq(s, 1, Len(s) - 1)) + DigitVal(s[Len(s)])

\* Number ::= Digit+ | Digit+ '.' Digit* | Digit* '.' Digit+
parse_f64(s) ==
    IF /\ \A i \in 1..Len(s) : s[i] \in Digits \cup {"."}
       /\ CountDots(s) <= 1
       /\ \E i \in 1..Len(s) : s[i] \in Digits
    THEN LET int == SubSeq(s, 1, DotPos(s) - 1)
             frac == SubSeq(s, DotPos(s) + 1, Len(s))
         IN Some(DigitsValue(int) * Scale + DigitsValue(frac) * (Scale \div Pow10(Len(frac))))
    ELSE None

(***************************************************************************)
(* AttributeValue and its accessors (model.rs 98-161)                      *)
(***************************************************************************)
Variants == {"Bool", "L", "M", "N", "Ns", "Null", "S", "Ss"}

AttributeValue(tag, val) == [tag |-> tag, val |-> val]

\* The strings of a Vec<String> payload, kept as text with "," between them.
RECURSIVE array_elements(_)
array_elements(t) ==
    IF t = <<>> THEN <<>>
    ELSE LET commas == {i \in 1..Len(t) : t[i] = ","}
         IN IF commas = {} THEN <<t>>
            ELSE LET c == CHOOSE i \in commas : \A j \in commas : i <= j
                 IN <<SubSeq(t, 1, c - 1)>> \o array_elements(SubSeq(t, c + 1, Len(t)))

\* ns.iter().filter_map(|n| n.parse::<f64>().ok()).collect()
RECURSIVE filter_map_parse(_)
filter_map_parse(ns) ==
    IF ns = <<>> THEN <<>>
    ELSE parse_f64(Head(ns)) \o filter_map_parse(Tail(ns))

as_bool(v) == IF v.tag = "Bool" THEN Some(v.val = <<"true">>) ELSE None
as_l(v) == IF v.tag = "L" THEN Some(v.val) ELSE None
as_m(v) == IF v.tag = "M" THEN Some(v.val) ELSE None
as_n(v) == IF v.tag = "N" THEN parse_f64(v.val) ELSE None
as_ns(v) == IF v.tag = "Ns" THEN filter_map_parse(array_elements(v.val)) ELSE <<>>
as_null(v) == IF v.tag = "Null" THEN Some(v.val = <<"true">>) ELSE None
as_s(v) == IF v.tag = "S" THEN Some(v.val) ELSE None
as_ss(v) == IF v.tag = "Ss" THEN array_elements(v.val) ELSE <<>>

(***************************************************************************)
(* HashMap<String, AttributeValue>                                         *)
(***************************************************************************)
get(m, k) == IF k \in DOMAIN m THEN Some(m[k]) ELSE None
ok_or(o, e) == IF o = None THEN Err(e) ELSE Ok(o[1])
EmptyMap == [k \in {} |-> AttributeValue("S", <<>>)]

(***************************************************************************)
(* Product::try_from (model.rs 163-212)                                    *)
(***************************************************************************)
Product(id, name, price) == [id |-> id, name |-> name, price |-> price]

\* found, were it to look the lowercase key up first.
found_lowercase_first(value, cap, low, missing) ==
    IF get(value, low) # None THEN Ok(get(value, low)[1])
    ELSE ok_or(get(value, cap), InternalError(missing))

\* `match value.get(Cap) { Some(v) => v, None => value.get(low).ok_or(..)? }`
found(value, cap, low, missing) ==
    IF get(value, cap) # None THEN Ok(get(value, cap)[1])
    ELSE ok_or(get(value, low), InternalError(missing))

\* id_field, were it to report an absent id as an id of the wrong type.
id_field_absent_as_mismatch(value) ==
    LET f == found(value, "Id", "id", "id is not a string")
    IN IF IsErr(f) THEN f
       ELSE ok_or(as_s(Unwrap(f)), InternalError("id is not a string"))

id_field(value) ==
    LET f == found(value, "Id", "id", "Missing id in lambda")
    IN IF IsErr(f) THEN f
       ELSE ok_or(as_s(Unwrap(f)), InternalError("id is not a string"))

\* name_field, were it to try `name` when the value under `Name` is no string.
name_field_falling_back(value) ==
    LET f == found(value, "Name", "name", "Missing name in lambda")
        g == ok_or(get(value, "name"), InternalError("Missing name in lambda"))
    IN IF IsErr(f) THEN f
       ELSE IF as_s(Unwrap(f)) = None /\ IsOk(g)
            THEN ok_or(as_s(Unwrap(g)), InternalError("name is not a string"))
       ELSE ok_or(as_s(Unwrap(f)), InternalError("name is not a string"))

name_field(value) ==
    LET f == found(value, "Name", "name", "Missing name in lambda")
    IN IF IsErr(f) THEN f
       ELSE ok_or(as_s(Unwrap(f)), InternalError("name is not a string"))

price_field(value) ==
    LET f == found(value, "Price", "price", "Missing price in lambda")
    IN IF IsErr(f) THEN f
       ELSE ok_or(as_n(Unwrap(f)), InternalError("price is not a number"))

ProductTryFrom(value) ==
    IF IsErr(id_field(value)) THEN Err(UnwrapErr(id_field(value)))
    ELSE IF IsErr(name_field(value)) THEN Err(UnwrapErr(name_field(value)))
    ELSE IF IsErr(price_field(value)) THEN Err(UnwrapErr(price_field(value)))
    ELSE Ok(Product(Unwrap(id_field(value)), Unwrap(name_field(value)),
                    Unwrap(price_field(value))))

(***************************************************************************)
(* Event::try_from(&DynamoDBRecord) (model.rs 45-67)                       *)
(***************************************************************************)
Created(product) == [type |-> "Created", product |-> <<product>>, old |-> <<>>, new |-> <<>>]
Updated(old, new) == [type |-> "Updated", product |-> <<>>, old |-> <<old>>, new |-> <<new>>]
Deleted(product) == [type |-> "Deleted", product |-> <<product>>, old |-> <<>>, new |-> <<>>]

DynamoDBRecord(event_name, new_image, old_image) ==
    [event_name |-> event_name, new_image |-> new_image, old_image |-> old_image]

insert_arm(value) ==
    LET product == ProductTryFrom(value.new_image)
    IN IF IsErr(product) THEN Err(UnwrapErr(product))
       ELSE Ok(Created(Unwrap(product)))

\* The MODIFY arm, were it to take `old` from NewImage as well.
modify_arm_old_from_new(value) ==
    LET old == ProductTryFrom(value.new_image)
        new == ProductTryFrom(value.new_image)
    IN IF IsErr(old) THEN Err(UnwrapErr(old))
       ELSE IF IsErr(new) THEN Err(UnwrapErr(new))
       ELSE Ok(Updated(Unwrap(old), Unwrap(new)))

\* The MODIFY arm, were it to project NewImage before OldImage.
modify_arm_new_first(value) ==
    LET old == ProductTryFrom(value.old_image)
        new == ProductTryFrom(value.new_image)
    IN IF IsErr(new) THEN Err(UnwrapErr(new))
       ELSE IF IsErr(old) THEN Err(UnwrapErr(old))
       ELSE Ok(Updated(Unwrap(old), Unwrap(new)))

\* `?` after the projection of OldImage returns before NewImage is projected.
modify_arm(value) ==
    LET old == ProductTryFrom(value.old_image)
        new == ProductTryFrom(value.new_image)
    IN IF IsErr(old) THEN Err(UnwrapErr(old))
       ELSE IF IsErr(new) THEN Err(UnwrapErr(new))
       ELSE Ok(Updated(Unwrap(old), Unwrap(new)))

remove_arm(value) ==
    LET product == ProductTryFrom(value.old_image)
    IN IF IsErr(product) THEN Err(UnwrapErr(product))
       ELSE Ok(Deleted(Unwrap(product)))

\* The `_` arm, were it to treat an unknown event name as an INSERT.
unknown_arm_as_insert(value) == insert_arm(value)

unknown_arm(value) == Err(InternalError("Unknown event type"))

EventTryFrom(value) ==
    CASE value.event_name = "INSERT" -> insert_arm(value)
      [] value.event_name = "MODIFY" -> modify_arm(value)
      [] value.event_name = "REMOVE" -> remove_arm(value)
      [] OTHER -> unknown_arm(value)

(***************************************************************************)
(* Input domains                                                           *)
(***************************************************************************)
S(t) == AttributeValue("S", t)
N(t) == AttributeValue("N", t)
Bool(t) == AttributeValue("Bool", t)

Keys == {"Id", "id", "Name", "name", "Price", "price"}
Absent(A) == {None} \cup {Some(a) : a \in A}

\* The attribute map that holds o[k][1] under every key k with o[k] present.
ImageOf(o) == [k \in {j \in DOMAIN o : o[j] # None} |-> o[k][1]]

ImagesOver(Id, id, Name, name, Price, price) ==
    {ImageOf([Id |-> a, id |-> b, Name |-> c, name |-> d, Price |-> e, price |-> f]) :
        a \in Absent(Id), b \in Absent(id), c \in Absent(Name), d \in Absent(name),
        e \in Absent(Price), f \in Absent(price)}

StringFieldValues == {S(<<"a">>), S(<<"b">>), Bool(<<"true">>)}
NumTexts == SeqsUpTo(Digits \cup {"."}, MaxNumLen) \cup {<<"x">>}
PriceFieldValues == {N(t) : t \in NumTexts} \cup {S(<<"1">>)}

Images == ImagesOver(StringFieldValues, StringFieldValues, StringFieldValues,
                     StringFieldValues, PriceFieldValues, PriceFieldValues)

EventNames == {"INSERT", "MODIFY", "REMOVE", "insert", "UPSERT"}

ClassifyImages == ImagesOver({S(<<"a">>)}, {S(<<"b">>)}, {S(<<"a">>), Bool(<<"true">>)}, {},
                             {N(<<"1">>)}, {N(<<"x">>)})

ClassifyRecords == {DynamoDBRecord(n, new, old) :
                       n \in EventNames, new \in ClassifyImages, old \in ClassifyImages}

(***************************************************************************)
(* serde decoding of the envelope (model.rs 15-43, 69-110)                 *)
(***************************************************************************)
\* One attribute on the wire: the single key of the tagged object, the JSON
\* type of its payload and the payload's text.
WireAttr(tag, json, val) == [tag |-> tag, json |-> json, val |-> val]

PayloadType(tag) ==
    CASE tag \in {"S", "N"} -> "string"
      [] tag \in {"Bool", "Null"} -> "bool"
      [] tag \in {"L", "Ns", "Ss"} -> "array"
      [] tag = "M" -> "object"

\* #[derive(Deserialize)] enum AttributeValue: the key must be a variant name
\* and the payload must have the variant's type.  The elements of an array
\* payload are strings here, so a list (whose elements must be attributes)
\* decodes only when it is empty.
deserialize_attribute(w) ==
    IF /\ w.tag \in Variants /\ w.json = PayloadType(w.tag)
       /\ w.tag = "L" => w.val = <<>>
    THEN Ok(AttributeValue(w.tag, w.val))
    ELSE Err("unknown variant or invalid type")

deserialize_image(w) ==
    IF \E k \in DOMAIN w : IsErr(deserialize_attribute(w[k]))
    THEN Err("unknown variant or invalid type")
    ELSE Ok([k \in DOMAIN w |-> Unwrap(deserialize_attribute(w[k]))])

\* image_or_default, were the image a required field of the stream record.
image_required(o) == IF o = None THEN Err("missing field") ELSE deserialize_image(o[1])

\* #[serde(rename = "NewImage", default)]: an absent image is Default::default()
image_or_default(o) == IF o = None THEN Ok(EmptyMap) ELSE deserialize_image(o[1])

deserialize_record(w) ==
    LET new == image_or_default(w.NewImage)
        old == image_or_default(w.OldImage)
    IN IF IsErr(new) THEN Err(UnwrapErr(new))
       ELSE IF IsErr(old) THEN Err(UnwrapErr(old))
       ELSE Ok(DynamoDBRecord(w.eventName, Unwrap(new), Unwrap(old)))

\* serde_json::from_value::<DynamoDBEvent>: `Records` is required.
from_value(event) ==
    IF event = None THEN Err("missing field Records")
    ELSE IF \E i \in 1..Len(event[1]) : IsErr(deserialize_record(event[1][i]))
    THEN Err("unknown variant or invalid type")
    ELSE Ok([i \in 1..Len(event[1]) |-> Unwrap(deserialize_record(event[1][i]))])

(***************************************************************************)
(* Batches                                                                 *)
(***************************************************************************)
WS(t) == WireAttr("S", "string", t)
WN(t) == WireAttr("N", "string", t)

WireA == [Id |-> WS(<<"a">>), Name |-> WS(<<"a">>), Price |-> WN(<<"1">>)]
WireB == [id |-> WS(<<"b">>), name |-> WS(<<"b">>), price |-> WN(<<".", "1">>)]
WireNoId == [Name |-> WS(<<"a">>), Price |-> WN(<<"1">>)]
WireBadName == [Id |-> WS(<<"a">>), Name |-> WireAttr("Bool", "bool", <<"true">>),
                Price |-> WN(<<"1">>)]
WireFlagged == [Id |-> WS(<<"a">>), Name |-> WS(<<"a">>), Price |-> WN(<<"1">>),
                InStock |-> WireAttr("BOOL", "bool", <<"true">>)]

WireRecord(eventName, NewImage, OldImage) ==
    [eventName |-> eventName, NewImage |-> NewImage, OldImage |-> OldImage]

BatchRecords ==
    {WireRecord("INSERT", new, None) : new \in Absent({WireA, WireNoId, WireFlagged})}
    \cup {WireRecord("REMOVE", new, old) : new \in Absent({WireA}),
                                           old \in Absent({WireB, WireBadName})}
    \cup {WireRecord("MODIFY", new, old) : new \in Absent({WireA, WireNoId}),
                                           old \in Absent({WireB, WireBadName})}
    \cup {WireRecord("UPSERT", Some(WireA), Some(WireB))}

Envelopes == {None} \cup {Some(rs) : rs \in SeqsUpTo(BatchRecords, MaxRecords)}

\* Single attributes: the DynamoDB tag names and the variant names, each with
\* a payload of every JSON type.
WireTags == {"S", "N", "BOOL", "NULL", "L", "M", "SS", "NS"}
JsonTypes == {"string", "bool", "array", "object"}
PayloadsOf(json) ==
    CASE json = "string" -> {<<"a">>, <<"1">>, <<"x">>}
      [] json = "bool" -> {<<"true">>, <<"false">>}
      [] json = "array" -> {<<>>, <<"1">>, <<"1", ",", "x">>, <<"a", ",", "b">>}
      [] json = "object" -> {<<>>}
WireAttrs == UNION {{WireAttr(t, j, v) : t \in WireTags \cup Variants, v \in PayloadsOf(j)} :
                       j \in JsonTypes}

Unit == "()"
SinkOutcomes == {Ok(Unit), Err(InternalError("event bus failure")),
                 Err(ClientError("event bus rejected"))}

(***************************************************************************)
(* Initial states: one call of one of the three entry points               *)
(***************************************************************************)
NoImage == image = EmptyMap /\ projected = None
NoRecord == record = DynamoDBRecord("INSERT", EmptyMap, EmptyMap) /\ classified = None
NoAttr == wire = WS(<<>>) /\ attr = None /\ accessed = None
NoBatch == /\ envelope = None /\ ddb_event = None /\ slots = <<>> /\ order = <<>>
           /\ saved_error = None /\ events = None /\ sink_calls = <<>> /\ sink_replies = <<>> /\ result = None

InitProject == pc = "project" /\ image \in Images /\ projected = None
               /\ NoRecord /\ NoBatch /\ NoAttr

InitClassify == pc = "classify" /\ record \in ClassifyRecords /\ classified = None
                /\ NoImage /\ NoBatch /\ NoAttr

InitBatch == /\ pc = "start" /\ envelope \in Envelopes
             /\ ddb_event = None /\ slots = <<>> /\ order = <<>> /\ saved_error = None
             /\ events = None /\ sink_calls = <<>> /\ sink_replies = <<>> /\ result = None
             /\ NoImage /\ NoRecord /\ NoAttr

InitAttribute == pc = "wire" /\ wire \in WireAttrs /\ attr = None /\ accessed = None
                 /\ NoImage /\ NoRecord /\ NoBatch

Init == InitProject \/ InitClassify \/ InitBatch \/ InitAttribute

(***************************************************************************)
(* Actions                                                                 *)
(***************************************************************************)
attr_vars == <<wire, attr, accessed>>
batch_vars == <<envelope, ddb_event, slots, order, saved_error, events, sink_calls,
                sink_replies, result>>

\* (&image).try_into()
TryIntoProduct ==
    /\ pc = "project"
    /\ UNCHANGED attr_vars
    /\ projected' = Some(ProductTryFrom(image))
    /\ pc' = "projected"
    /\ UNCHANGED <<image, record, classified>>
    /\ UNCHANGED batch_vars

\* (&record).try_into()
TryIntoEvent ==
    /\ pc = "classify"
    /\ UNCHANGED attr_vars
    /\ classified' = Some(EventTryFrom(record))
    /\ pc' = "classified"
    /\ UNCHANGED <<image, projected, record>>
    /\ UNCHANGED batch_vars

\* serde_json::to_string_pretty(&event)
to_string_pretty(event) == ToString(event)

\* The `message` local of the map_err closure (mod.rs 48).
message(e, incoming_event) ==
    "Error parsing dynamo db events:\n" \o e \o "\nReceived Event Json:\n" \o incoming_event

\* handle_events_unboxed up to the start of the parallel iterator; a decode
\* failure is mapped to ClientError and returned (mod.rs 30-34, 43-51).  The
\* closure builds `message` and does not use it.
json_to_ddb_event_structs ==
    /\ pc = "start"
    /\ UNCHANGED attr_vars
    /\ LET decoded == from_value(envelope)
           unused == IF IsErr(decoded)
                     THEN message(UnwrapErr(decoded), to_string_pretty(envelope))
                     ELSE ""
       IN IF IsErr(decoded)
          THEN /\ result' = Some(Err(ClientError("Error parsing json")))
               /\ pc' = "done"
               /\ UNCHANGED <<ddb_event, slots>>
          ELSE /\ ddb_event' = Some(Unwrap(decoded))
               /\ slots' = [i \in 1..Len(Unwrap(decoded)) |-> None]
               /\ pc' = "par_iter"
               /\ UNCHANGED result
    /\ UNCHANGED <<image, projected, record, classified, envelope, order, saved_error,
                   events, sink_calls, sink_replies>>

\* One worker takes record i: `.map(|r| r.try_into())`, and the collect into
\* Result keeps the first error it is handed.
try_into(i) ==
    /\ pc = "par_iter"
    /\ UNCHANGED attr_vars
    /\ i \in 1..Len(slots)
    /\ slots[i] = None
    /\ LET r == EventTryFrom(ddb_event[1][i])
       IN /\ slots' = [slots EXCEPT ![i] = Some(r)]
          /\ saved_error' = IF IsErr(r) /\ saved_error = None
                             THEN Some(UnwrapErr(r)) ELSE saved_error
    /\ order' = Append(order, i)
    /\ UNCHANGED <<pc, image, projected, record, classified, envelope, ddb_event,
                   events, sink_calls, sink_replies, result>>

\* The Vec<Event> gathered from the slots, by record position.
gather(sl) == [i \in 1..Len(sl) |-> Unwrap(sl[i][1])]

\* collect, were it to drop the failed records and keep the rest.
collect_skipping_failures ==
    /\ pc = "par_iter"
    /\ UNCHANGED attr_vars
    /\ \A i \in 1..Len(slots) : slots[i] # None
    /\ LET kept == {i \in 1..Len(slots) : IsOk(slots[i][1])}
           pos(k) == CHOOSE i \in kept : Cardinality({j \in kept : j < i}) = k - 1
       IN events' = Some([k \in 1..Cardinality(kept) |-> Unwrap(slots[pos(k)][1])])
    /\ pc' = "dispatch"
    /\ UNCHANGED <<image, projected, record, classified, envelope, ddb_event, slots,
                   order, saved_error, sink_calls, sink_replies, result>>

\* collect, were it to gather the events in the order the workers finished.
collect_in_completion_order ==
    /\ pc = "par_iter"
    /\ UNCHANGED attr_vars
    /\ \/ \A i \in 1..Len(slots) : slots[i] # None
       \/ saved_error # None
    /\ IF saved_error # None
       THEN /\ result' = Some(Err(saved_error[1]))
            /\ pc' = "done"
            /\ UNCHANGED events
       ELSE /\ events' = Some([k \in 1..Len(slots) |-> Unwrap(slots[order[k]][1])])
            /\ pc' = "dispatch"
            /\ UNCHANGED result
    /\ UNCHANGED <<image, projected, record, classified, envelope, ddb_event, slots,
                   order, saved_error, sink_calls, sink_replies>>

\* `.collect::<Result<Vec<Event>, _>>()` finishes: after an error the
\* remaining records need not be classified.
collect ==
    /\ pc = "par_iter"
    /\ UNCHANGED attr_vars
    /\ \/ \A i \in 1..Len(slots) : slots[i] # None
       \/ saved_error # None
    /\ IF saved_error # None
       THEN /\ result' = Some(Err(saved_error[1]))
            /\ pc' = "done"
            /\ UNCHANGED events
       ELSE /\ events' = Some(gather(slots))
            /\ pc' = "dispatch"
            /\ UNCHANGED result
    /\ UNCHANGED <<image, projected, record, classified, envelope, ddb_event, slots,
                   order, saved_error, sink_calls, sink_replies>>

\* dispatch_events, were it to submit every event on its own.
dispatch_events_per_record ==
    /\ pc = "dispatch"
    /\ UNCHANGED attr_vars
    /\ \E outcome \in SinkOutcomes :
          /\ sink_calls' = sink_calls \o [i \in 1..Len(events[1]) |-> <<events[1][i]>>]
          /\ sink_replies' = Append(sink_replies, outcome)
          /\ result' = Some(outcome)
    /\ pc' = "done"
    /\ UNCHANGED <<image, projected, record, classified, envelope, ddb_event, slots,
                   order, saved_error, events>>

\* dispatch_events, were it to replace the sink's failure by one of its own.
dispatch_events_replacing_failure ==
    /\ pc = "dispatch"
    /\ UNCHANGED attr_vars
    /\ \E outcome \in SinkOutcomes :
          /\ sink_calls' = Append(sink_calls, events[1])
          /\ sink_replies' = Append(sink_replies, outcome)
          /\ result' = IF IsErr(outcome)
                        THEN Some(Err(InternalError("Error dispatching events")))
                        ELSE Some(Ok(Unit))
    /\ pc' = "done"
    /\ UNCHANGED <<image, projected, record, classified, envelope, ddb_event, slots,
                   order, saved_error, events>>

\* dispatch_events: one send_events call; `?` returns its failure as it is,
\* and Ok(()) follows its success (mod.rs 64-73).
dispatch_events ==
    /\ pc = "dispatch"
    /\ UNCHANGED attr_vars
    /\ \E outcome \in SinkOutcomes :
          /\ sink_calls' = Append(sink_calls, events[1])
          /\ sink_replies' = Append(sink_replies, outcome)
          /\ result' = IF IsErr(outcome)
                        THEN Some(Err(UnwrapErr(outcome)))
                        ELSE Some(Ok(Unit))
    /\ pc' = "done"
    /\ UNCHANGED <<image, projected, record, classified, envelope, ddb_event, slots,
                   order, saved_error, events>>

\* serde_json::from_value::<AttributeValue>(wire)
DeserializeAttribute ==
    /\ pc = "wire"
    /\ attr' = Some(deserialize_attribute(wire))
    /\ pc' = "attr"
    /\ UNCHANGED <<wire, accessed, image, projected, record, classified>>
    /\ UNCHANGED batch_vars

\* Every accessor of impl AttributeValue applied to the decoded attribute.
Access ==
    /\ pc = "attr"
    /\ IsOk(attr[1])
    /\ LET v == Unwrap(attr[1])
       IN accessed' = Some([as_bool |-> as_bool(v), as_l |-> as_l(v), as_m |-> as_m(v),
                            as_n |-> as_n(v), as_ns |-> as_ns(v), as_null |-> as_null(v),
                            as_s |-> as_s(v), as_ss |-> as_ss(v)])
    /\ pc' = "accessed"
    /\ UNCHANGED <<wire, attr, image, projected, record, classified>>
    /\ UNCHANGED batch_vars

Next ==
    \/ DeserializeAttribute
    \/ Access
    \/ TryIntoProduct
    \/ TryIntoEvent
    \/ json_to_ddb_event_structs
    \/ \E i \in 1..MaxRecords : try_into(i)
    \/ collect
    \/ dispatch_events

Spec == Init /\ [][Next]_vars

(***************************************************************************)
(* Properties                                                              *)
(***************************************************************************)
Decoded == ddb_event # None
Records == ddb_event[1]
Positions == 1..Len(Records)
Classification(i) == EventTryFrom(Records[i])
Returned == pc = "done"

\* C1: a batch in which at least one record fails classification, at any
\* position, never produces an event sequence, never reaches the sink, and
\* the handler returns a failure for it.
C1_AllOrNothing ==
    (Decoded /\ \E i \in Positions : IsErr(Classification(i))) =>
        /\ events = None
        /\ pc # "dispatch"
        /\ sink_calls = <<>>
        /\ Returned => IsErr(result[1])

\* A two-record batch whose first record was classified successfully and
\* whose second record failed has returned.
C1_Witness ==
    /\ Returned /\ Decoded /\ Len(Records) = 2
    /\ slots[1] # None /\ slots[2] # None
    /\ IsOk(slots[1][1]) /\ IsErr(slots[2][1])
    /\ IsErr(result[1]) /\ sink_calls = <<>>

\* C2: when every record classifies, the event sequence has the length of
\* the record sequence and its i-th event is the classification of the i-th
\* record, whatever the order in which the workers finished.
C2_OrderPreserved ==
    events # None =>
        /\ Len(events[1]) = Len(Records)
        /\ Len(Records) = Len(envelope[1])
        /\ \A i \in Positions :
              /\ IsOk(Classification(i))
              /\ events[1][i] = Unwrap(Classification(i))
              /\ Records[i] = Unwrap(deserialize_record(envelope[1][i]))

\* The workers finished the second record before the first, and the two
\* events differ.
C2_Witness ==
    /\ events # None /\ order = <<2, 1>>
    /\ events[1][1] # events[1][2]
    /\ events[1][1].type = "Created" /\ events[1][2].type = "Deleted"

\* C3: a batch that transforms successfully is submitted to the sink in
\* exactly one call that carries the whole event sequence; nothing is
\* submitted before dispatch, and a failed submission is not repeated.
C3_OneSubmission ==
    /\ Len(sink_calls) <= 1
    /\ (pc # "done") => sink_calls = <<>>
    /\ (Returned /\ events # None) => sink_calls = <<events[1]>>
    /\ (Returned /\ events = None) => sink_calls = <<>>

\* The sink failed a two-event batch and the handler has returned after
\* its single submission.
C3_Witness ==
    /\ Returned /\ events # None /\ Len(events[1]) = 2
    /\ IsErr(result[1]) /\ sink_calls = <<events[1]>>

(***************************************************************************)
(* Projection properties                                                   *)
(***************************************************************************)
Fields == <<"id", "name", "price">>
CapKey(f) == CASE f = "id" -> "Id" [] f = "name" -> "Name" [] f = "price" -> "Price"
ExpectedTag(f) == IF f = "price" THEN "N" ELSE "S"
MissingError(f) ==
    CASE f = "id" -> InternalError("Missing id in lambda")
      [] f = "name" -> InternalError("Missing name in lambda")
      [] f = "price" -> InternalError("Missing price in lambda")
MismatchError(f) ==
    CASE f = "id" -> InternalError("id is not a string")
      [] f = "name" -> InternalError("name is not a string")
      [] f = "price" -> InternalError("price is not a number")

\* v carries the tag field f expects, and a price is a decimal.
WellTagged(v, f) == /\ v.tag = ExpectedTag(f)
                    /\ f = "price" => parse_f64(v.val) # None
FieldValue(v, f) == IF f = "price" THEN parse_f64(v.val)[1] ELSE v.val

AbsentField(img, f) == CapKey(f) \notin DOMAIN img /\ f \notin DOMAIN img
\* Field f of img can be read: the capitalized key holds a well-tagged
\* value, or it is absent and the lowercase key holds one.
Readable(img, f) ==
    \/ CapKey(f) \in DOMAIN img /\ WellTagged(img[CapKey(f)], f)
    \/ CapKey(f) \notin DOMAIN img /\ f \in DOMAIN img /\ WellTagged(img[f], f)
\* Every field read before field number n can be read.
ReadableBefore(img, n) == \A m \in 1..(n - 1) : Readable(img, Fields[m])

Projected == pc = "projected"
Projection == projected[1]

\* C4: each field is read from its capitalized key, and from its lowercase
\* key only when the capitalized key is absent; the projected field equals
\* the well-tagged value found there, and the capitalized key wins when both
\* keys are present.
C4_CapitalizedKeyFirst ==
    Projected =>
        /\ (\A n \in 1..3 : Readable(image, Fields[n])) => IsOk(Projection)
        /\ IsOk(Projection) =>
              \A n \in 1..3 :
                 LET f == Fields[n]
                 IN IF CapKey(f) \in DOMAIN image
                    THEN /\ WellTagged(image[CapKey(f)], f)
                         /\ Unwrap(Projection)[f] = FieldValue(image[CapKey(f)], f)
                    ELSE /\ f \in DOMAIN image
                         /\ WellTagged(image[f], f)
                         /\ Unwrap(Projection)[f] = FieldValue(image[f], f)

\* Both `Id` and `id` are present with different strings, and the projected
\* identifier is the one under `Id`.
C4_Witness ==
    /\ Projected /\ IsOk(Projection)
    /\ "Id" \in DOMAIN image /\ "id" \in DOMAIN image
    /\ image["Id"] = S(<<"a">>) /\ image["id"] = S(<<"b">>)
    /\ Unwrap(Projection).id = <<"a">>
    /\ "Price" \notin DOMAIN image /\ Unwrap(Projection).price = 11 * Scale

\* C5: when the capitalized key of a field holds a value of the wrong tag,
\* projection fails, never with that field's missing-field error, and with
\* that field's type-mismatch error when the fields read before it can be
\* read; a well-tagged value under the lowercase key does not change this.
C5_WrongTagIsMismatch ==
    Projected =>
        \A n \in 1..3 :
           LET f == Fields[n]
           IN (CapKey(f) \in DOMAIN image /\ image[CapKey(f)].tag # ExpectedTag(f)) =>
                 /\ IsErr(Projection)
                 /\ UnwrapErr(Projection) # MissingError(f)
                 /\ ReadableBefore(image, n) => Projection = Err(MismatchError(f))

\* `Name` holds a boolean, `name` holds a string, and projection failed
\* with "name is not a string".
C5_Witness ==
    /\ Projected
    /\ "Name" \in DOMAIN image /\ image["Name"].tag = "Bool"
    /\ "name" \in DOMAIN image /\ image["name"].tag = "S"
    /\ Projection = Err(InternalError("name is not a string"))

\* C6: a field absent under both of its keys makes projection fail, never
\* with that field's type-mismatch error, and with the missing-field error
\* that names the field when the fields read before it can be read; a batch
\* with a record whose first projected image lacks a field in this way
\* fails, with that error when no other record of the batch fails.
Kinds == {"INSERT", "MODIFY", "REMOVE"}
FirstImage(r) == IF r.event_name = "INSERT" THEN r.new_image ELSE r.old_image
Lacks(r, n) == /\ r.event_name \in Kinds
               /\ AbsentField(FirstImage(r), Fields[n])
               /\ ReadableBefore(FirstImage(r), n)
OnlyFailure(i) == \A j \in Positions \ {i} : IsOk(Classification(j))

C6_AbsentIsMissing ==
    /\ Projected =>
          \A n \in 1..3 :
             AbsentField(image, Fields[n]) =>
                /\ IsErr(Projection)
                /\ UnwrapErr(Projection) # MismatchError(Fields[n])
                /\ ReadableBefore(image, n) => Projection = Err(MissingError(Fields[n]))
    /\ Decoded =>
          \A i \in Positions : \A n \in 1..3 :
             Lacks(Records[i], n) =>
                /\ slots[i] # None => slots[i][1] = Err(MissingError(Fields[n]))
                /\ events = None /\ sink_calls = <<>>
                /\ Returned =>
                      /\ IsErr(result[1])
                      /\ \E j \in Positions : result[1].err = Classification(j).err
                      /\ OnlyFailure(i) => result[1] = Err(MissingError(Fields[n]))

\* The second record of a batch is an INSERT whose NewImage has no id, the
\* first record classified, and the batch failed with "Missing id in lambda".
C6_Witness ==
    /\ Returned /\ Decoded /\ Len(Records) = 2
    /\ Records[2].event_name = "INSERT" /\ Lacks(Records[2], 1)
    /\ "Name" \in DOMAIN Records[2].new_image
    /\ slots[1] # None /\ IsOk(slots[1][1])
    /\ result[1] = Err(InternalError("Missing id in lambda"))

(***************************************************************************)
(* Classification properties                                               *)
(***************************************************************************)
Classified == pc = "classified"
OldProduct == ProductTryFrom(record.old_image)
NewProduct == ProductTryFrom(record.new_image)

\* C7: the event kind alone selects the outcome.  INSERT yields Created of
\* the projected NewImage, MODIFY yields Updated of the projected OldImage
\* and the projected NewImage, each from its own image, and REMOVE yields
\* Deleted of the projected OldImage whatever NewImage holds.
C7_KindSelectsEvent ==
    Classified =>
        LET c == classified[1]
        IN /\ record.event_name = "INSERT" =>
                 /\ IsOk(c) <=> IsOk(NewProduct)
                 /\ IsOk(c) => c = Ok(Created(Unwrap(NewProduct)))
           /\ record.event_name = "MODIFY" =>
                 /\ IsOk(c) <=> (IsOk(OldProduct) /\ IsOk(NewProduct))
                 /\ IsOk(c) => c = Ok(Updated(Unwrap(OldProduct), Unwrap(NewProduct)))
           /\ record.event_name = "REMOVE" =>
                 /\ IsOk(c) <=> IsOk(OldProduct)
                 /\ IsOk(c) => c = Ok(Deleted(Unwrap(OldProduct)))

\* A MODIFY record whose images project to different products was
\* classified as Updated with each product in its own place.
C7_Witness ==
    /\ Classified /\ record.event_name = "MODIFY" /\ IsOk(classified[1])
    /\ Unwrap(classified[1]).type = "Updated"
    /\ Unwrap(classified[1]).old[1].id = <<"b">>
    /\ Unwrap(classified[1]).new[1].id = <<"a">>

\* A wire record lacks the image its event kind is classified from.
NewImageAbsent(w) == w.eventName \in {"INSERT", "MODIFY"} /\ w.NewImage = None
OldImageAbsent(w) == w.eventName \in {"REMOVE", "MODIFY"} /\ w.OldImage = None
FirstImageAbsent(w) == \/ w.eventName = "INSERT" /\ w.NewImage = None
                       \/ w.eventName \in {"REMOVE", "MODIFY"} /\ w.OldImage = None
DecodeRan == envelope # None /\ pc # "start"
ImagesDecode ==
    \A i \in 1..Len(envelope[1]) :
       /\ envelope[1][i].NewImage # None => IsOk(deserialize_image(envelope[1][i].NewImage[1]))
       /\ envelope[1][i].OldImage # None => IsOk(deserialize_image(envelope[1][i].OldImage[1]))

\* C8 as stated: a record that lacks the image its event kind needs is
\* rejected by the decode phase, so once decoding has run nothing was
\* decoded and the handler's failure is the decode failure.
C8_AbsentImageIsDecodeError ==
    DecodeRan =>
        \A i \in 1..Len(envelope[1]) :
           (NewImageAbsent(envelope[1][i]) \/ OldImageAbsent(envelope[1][i])) =>
              /\ ~Decoded
              /\ Returned => result[1] = Err(ClientError("Error parsing json"))

\* C8 amended: a record that lacks the image its event kind needs passes
\* the decode phase with an empty attribute map in the image's place, the
\* classifier is handed that map and fails the record (with "Missing id in
\* lambda" when the absent image is the first one projected), and the batch
\* produces no event sequence and fails.
C8_AbsentImageIsEmptyMap ==
    DecodeRan =>
        \A i \in 1..Len(envelope[1]) :
           LET w == envelope[1][i]
           IN (NewImageAbsent(w) \/ OldImageAbsent(w)) =>
                 /\ ImagesDecode => Decoded
                 /\ Decoded =>
                       /\ NewImageAbsent(w) => Records[i].new_image = EmptyMap
                       /\ OldImageAbsent(w) => Records[i].old_image = EmptyMap
                       /\ slots[i] # None =>
                             /\ IsErr(slots[i][1])
                             /\ UnwrapErr(slots[i][1]).variant = "InternalError"
                             /\ FirstImageAbsent(w) =>
                                   slots[i][1] = Err(InternalError("Missing id in lambda"))
                       /\ events = None /\ sink_calls = <<>>
                       /\ Returned => /\ IsErr(result[1])
                                       /\ result[1] # Err(ClientError("Error parsing json"))

\* A REMOVE record without OldImage was decoded, handed to the classifier
\* as an empty map, and its batch failed with "Missing id in lambda".
C8_Witness ==
    /\ Returned /\ Decoded /\ Len(Records) = 1
    /\ envelope[1][1].eventName = "REMOVE" /\ envelope[1][1].OldImage = None
    /\ Records[1].old_image = EmptyMap
    /\ slots[1] = Some(Err(InternalError("Missing id in lambda")))
    /\ result[1] = Err(InternalError("Missing id in lambda"))

\* C9: a record whose event kind is none of INSERT, MODIFY, REMOVE
\* classifies to the error "Unknown event type", whatever its images hold;
\* its batch produces no event sequence, reaches no sink and fails, with
\* that error when no other record of the batch fails.
C9_UnknownKindFailsBatch ==
    /\ (Classified /\ record.event_name \notin Kinds) =>
          classified[1] = Err(InternalError("Unknown event type"))
    /\ Decoded =>
          \A i \in Positions :
             Records[i].event_name \notin Kinds =>
                /\ slots[i] # None => slots[i][1] = Err(InternalError("Unknown event type"))
                /\ events = None /\ pc # "dispatch" /\ sink_calls = <<>>
                /\ Returned =>
                      /\ IsErr(result[1])
                      /\ OnlyFailure(i) =>
                            result[1] = Err(InternalError("Unknown event type"))

\* A batch of a valid INSERT followed by an UPSERT with valid images
\* failed with "Unknown event type" after the INSERT was classified.
C9_Witness ==
    /\ Returned /\ Decoded /\ Len(Records) = 2
    /\ Records[2].event_name = "UPSERT"
    /\ IsOk(ProductTryFrom(Records[2].new_image))
    /\ slots[1] # None /\ IsOk(slots[1][1])
    /\ result[1] = Err(InternalError("Unknown event type"))
    /\ sink_calls = <<>>

\* C10: a MODIFY record whose OldImage fails to project fails with the
\* OldImage error, also when NewImage fails too; the NewImage error is
\* surfaced only when OldImage projects.
C10_OldErrorFirst ==
    (Classified /\ record.event_name = "MODIFY") =>
        /\ IsErr(OldProduct) => classified[1] = Err(UnwrapErr(OldProduct))
        /\ (IsOk(OldProduct) /\ IsErr(NewProduct)) =>
              classified[1] = Err(UnwrapErr(NewProduct))

\* Both images of a MODIFY record fail to project, with different errors,
\* and the record failed with the OldImage error.
C10_Witness ==
    /\ Classified /\ record.event_name = "MODIFY"
    /\ IsErr(OldProduct) /\ IsErr(NewProduct)
    /\ UnwrapErr(OldProduct) # UnwrapErr(NewProduct)
    /\ classified[1] = Err(UnwrapErr(OldProduct))

(***************************************************************************)
(* Handler result properties                                               *)
(***************************************************************************)
DecodeFailed == Returned /\ ~Decoded

\* C11: when the envelope fails structural decoding, the failure returned
\* to the caller carries the decode error and the pretty-printed envelope.
C11_DecodeFailureCarriesEnvelope ==
    DecodeFailed =>
        /\ IsErr(result[1])
        /\ UnwrapErr(result[1]).msg =
              message(UnwrapErr(from_value(envelope)), to_string_pretty(envelope))

\* C12: for a batch that transformed successfully the handler returns what
\* the sink returned: the sink's failure itself when the submission failed,
\* and success with no value when it succeeded.
C12_SinkOutcomeReturned ==
    /\ events = None => sink_replies = <<>>
    /\ (Returned /\ events # None) =>
          /\ Len(sink_replies) = 1
          /\ IsErr(sink_replies[1]) => result[1] = Err(UnwrapErr(sink_replies[1]))
          /\ IsOk(sink_replies[1]) => result[1] = Ok(Unit)

\* The sink rejected the submission of a one-event batch and the handler
\* returned that very failure.
C12_Witness ==
    /\ Returned /\ events # None /\ Len(events[1]) = 1
    /\ sink_replies = <<Err(ClientError("event bus rejected"))>>
    /\ result[1] = Err(ClientError("event bus rejected"))

(***************************************************************************)
(* Attribute properties                                                    *)
(***************************************************************************)
VariantOf(tag) ==
    CASE tag = "BOOL" -> "Bool" [] tag = "NULL" -> "Null"
      [] tag = "SS" -> "Ss" [] tag = "NS" -> "Ns" [] OTHER -> tag
\* w is a single-key object under one of the eight wire tag names whose
\* payload has the tag's shape.
WellFormed(w) == /\ w.tag \in WireTags
                 /\ w.json = PayloadType(VariantOf(w.tag))
                 /\ w.tag = "L" => w.val = <<>>
WellFormedImage(o) == o # None => \A k \in DOMAIN o[1] : WellFormed(o[1][k])

\* C13: an attribute under any of the wire tags S, N, BOOL, NULL, L, M, SS,
\* NS decodes to the corresponding variant, and an envelope whose images
\* hold only such attributes decodes without a structural error.
C13_WireTagsDecode ==
    /\ (pc \in {"attr", "accessed"} /\ WellFormed(wire)) =>
          /\ IsOk(attr[1])
          /\ Unwrap(attr[1]) = AttributeValue(VariantOf(wire.tag), wire.val)
    /\ DecodeRan =>
          ((\A i \in 1..Len(envelope[1]) :
               /\ WellFormedImage(envelope[1][i].NewImage)
               /\ WellFormedImage(envelope[1][i].OldImage))
           => Decoded)

\* The accessors that return an Option, each with the tag it reads.
OptionAccessors == {"as_bool", "as_l", "as_m", "as_n", "as_null", "as_s"}
VecAccessors == {"as_ns", "as_ss"}
TagOf(a) ==
    CASE a = "as_bool" -> "Bool" [] a = "as_l" -> "L" [] a = "as_m" -> "M"
      [] a = "as_n" -> "N" [] a = "as_ns" -> "Ns" [] a = "as_null" -> "Null"
      [] a = "as_s" -> "S" [] a = "as_ss" -> "Ss"
Accessed == pc = "accessed"
Attribute == Unwrap(attr[1])
\* Accessor a signalled a failure: an Option accessor returned None.  A Vec
\* accessor hands back a Vec in every case, which is a value and no failure.
Signalled(a) == a \in OptionAccessors /\ Len(accessed[1][a]) = 0

\* C14: an accessor returns the contained value when the attribute carries
\* its tag (for numbers, the parsed value) and signals a failure, never a
\* value of any kind, when the attribute carries another tag.
C14_AccessorsNeverCoerce ==
    Accessed =>
        /\ Attribute.tag = "Bool" => accessed[1].as_bool = Some(Attribute.val = <<"true">>)
        /\ Attribute.tag = "Null" => accessed[1].as_null = Some(Attribute.val = <<"true">>)
        /\ Attribute.tag = "L" => accessed[1].as_l = Some(Attribute.val)
        /\ Attribute.tag = "M" => accessed[1].as_m = Some(Attribute.val)
        /\ Attribute.tag = "S" => accessed[1].as_s = Some(Attribute.val)
        /\ Attribute.tag = "N" => accessed[1].as_n = parse_f64(Attribute.val)
        /\ Attribute.tag = "Ss" => accessed[1].as_ss = array_elements(Attribute.val)
        /\ Attribute.tag = "Ns" =>
              accessed[1].as_ns = filter_map_parse(array_elements(Attribute.val))
        /\ \A a \in OptionAccessors \cup VecAccessors :
              Attribute.tag # TagOf(a) => Signalled(a)

FailingPositions == {i \in Positions : IsErr(Classification(i))}
LowestFailing == CHOOSE i \in FailingPositions : \A j \in FailingPositions : i <= j

\* C15: when records of a batch fail classification, the batch returns the
\* error of the failing record at the lowest position, whichever worker
\* finished first.
C15_LowestPositionErrorWins ==
    (Returned /\ Decoded /\ FailingPositions # {}) =>
        result[1] = Err(UnwrapErr(Classification(LowestFailing)))

====
